---- MODULE Spec2Model ----
(***************************************************************************)
(* heat_parallel.c: an MPI solver for the 2D heat equation.  Every rank    *)
(* runs main(): rank 0 parses the arguments, the ranks build a cartesian   *)
(* communicator, receive N, max_iteration, snapshot_frequency and M by     *)
(* broadcast, initialise their subgrid (domain_init) and run the           *)
(* iteration loop.  time_step, boundary_condition and domain_save are      *)
(* defined in the file; the loop body of main() calls none of them (the    *)
(* calls are commented out) and border_exchange is only declared.          *)
(*                                                                         *)
(* real_t values are kept in fixed point, Scale units to 1.0.  A buffer is *)
(* a function from the flat indices 0..cells-1 to such values; the         *)
(* accessors T, T_next and THERMAL_DIFFUSIVITY address it by               *)
(* y * (N + 2) + x, as the macros do.  An access outside the allocated     *)
(* block is undefined behaviour: the process either faults or goes on      *)
(* with a damaged heap (a store outside the block is lost to the model,    *)
(* a load outside the block yields whatever the heap holds, heapfill).     *)
(***************************************************************************)
EXTENDS Integers, Sequences, FiniteSets, TLC

\* ----------------------------------------------------------------- bounds
MaxIter == 1
MaxFreq == 2

\* The process counts of a run (mpirun -np): the topologies 1x1, 2x1, 3x1
\* and 2x2.
ProcessCounts == {1, 2, 3, 4}

\* The grid extents the argument parser may hand to rank 0.
GridSizes == {2, 6}

\* What freshly allocated (never written) heap memory may hold.
Garbage == {0, 7}

\* ------------------------------------------------------------ fixed point
\* real_t: one unit of the model is 1/Scale.
Scale == 1000

\* 1000 * sin(s / 20.0), rounded, for s = 0, 1, 2, ...
SinTable ==
  << 0, 50, 100, 149, 199, 247, 296, 343, 389, 435, 479, 523, 565, 605, 644,
     682, 717, 751, 783, 813, 841, 867, 891, 913, 932, 949, 964, 976, 985,
     993, 997, 1000, 1000, 997, 992, 984, 974, 961, 946, 929, 909, 887, 863,
     837, 808, 778, 746, 711, 675 >>

\* sin(s / 20.0) in fixed point
Sin20(s) == SinTable[s + 1]

\* the product of two fixed-point values
FMul(a, b) == (a * b) \div Scale

\* 30 + 30 * sin(s / 20.0)
InitialValue(s) == 30 * Scale + 30 * Sin20(s)

\* ------------------------------------------------------------------ state
VARIABLES
  size,                \* number of processes of the run (MPI_Comm_size)
  options,             \* what parse_args returns on rank 0: <<the OPTIONS>>, or NULL
  heapfill,            \* the content of heap memory the program never wrote
  pc,                  \* pc[r]: where rank r is in main()
  M, N,                \* M[r], N[r]: rank r's global M and N
  max_iteration,
  snapshot_frequency,
  dims,                \* dims[r] = <<dims[0], dims[1]>>
  coord,               \* coord[r] = <<coord[0], coord[1]>>
  temp,                \* temp[r] = <<block temp[0] points to, block temp[1] points to>>
  thermal_diffusivity, \* thermal_diffusivity[r]: the diffusivity block
  dt,
  iteration,           \* iteration[r]: the loop variable of main()
  heap,                \* heap[r]: "ok", or "damaged" after a store outside a block
  steps,               \* steps[r]: the operations the loop body ran in its latest pass
  out,                 \* the iterations rank 0 announced on stdout
  files,               \* the checkpoint files: snapshot index -> record
  called               \* called[r]: the function last applied to rank r's state

vars == << size, options, heapfill, pc, M, N, max_iteration, snapshot_frequency,
           dims, coord, temp, thermal_diffusivity, dt, iteration, heap, steps,
           out, files, called >>

Ranks == 0 .. (size - 1)

\* a NULL pointer: nothing to point to, a block of no cells
NULL == << >>

\* ------------------------------------------------------------ MPI library
\* MPI_Dims_create(size, 2, dims) with dims = {0, 0}: the balanced
\* factorisation of size, in non-increasing order.
DimsCreate(n) ==
  CHOOSE d \in (1 .. n) \X (1 .. n) :
    /\ d[1] * d[2] = n
    /\ d[1] >= d[2]
    /\ \A e \in (1 .. n) \X (1 .. n) :
         (e[1] * e[2] = n /\ e[1] >= e[2]) => d[1] - d[2] <= e[1] - e[2]

\* MPI_Cart_coords: ranks are laid out row-major over dims, no reordering.
CartCoords(r, d) == << r \div d[2], r % d[2] >>

\* ------------------------------------------------------ memory and macros
\* a block of n cells as malloc returns it
Malloc(n, fill) == [i \in 0 .. (n - 1) |-> fill]

InBlock(b, i) == i \in DOMAIN b

\* the flat index of the macros T, T_next and THERMAL_DIFFUSIVITY
Index(x, y, n) == y * (n + 2) + x

Load(b, i, fill) == IF InBlock(b, i) THEN b[i] ELSE fill

Store(b, i, v) == IF InBlock(b, i) THEN [b EXCEPT ![i] = v] ELSE b

\* ------------------------------------------------------------ domain_init
\* Lines 207-218: the extents and offsets domain_init derives.
LocalCol(Mv, d) == Mv \div d[1]

LocalRow(Nv, d) == Nv \div d[2]

OffsetX(Nv, d, c) == LocalRow(Nv, d) * c[1]

OffsetY(Mv, d, c) == LocalCol(Mv, d) * c[2]

\* line 223
Temperature(x, y, offset_x, offset_y) ==
  InitialValue((x + offset_x) + (offset_y + y))

\* line 224
Diffusivity(x, y, Nv, offset_x, offset_y) ==
  (5 * Scale) \div 100
    + InitialValue(Nv - x + offset_x + offset_y + y) \div 605

\* The loop of lines 219-230 visits (x, y) for x in 1..local_row and y in
\* 1..local_col, and stores at Index(x, y, N).  As x <= N < N + 2, the flat
\* index i is hit by the one visit (i % (N+2), i \div (N+2)), if that is one.
Visited(x, y, Mv, Nv, d) ==
  /\ 1 <= x /\ x <= LocalRow(Nv, d)
  /\ 1 <= y /\ y <= LocalCol(Mv, d)

\* domain_init on a rank with globals Mv, Nv, dims d and coord c: the three
\* blocks of (local_col+2) * (local_row+2) cells, and whether a store fell
\* outside them.
DomainInitOp(Mv, Nv, d, c, fill) ==
  LET cells == (LocalCol(Mv, d) + 2) * (LocalRow(Nv, d) + 2)
      ox == OffsetX(Nv, d, c)
      oy == OffsetY(Mv, d, c)
      fresh == Malloc(cells, fill)
      t == [i \in DOMAIN fresh |->
             IF Visited(i % (Nv + 2), i \div (Nv + 2), Mv, Nv, d)
             THEN Temperature(i % (Nv + 2), i \div (Nv + 2), ox, oy)
             ELSE fresh[i]]
  IN [ t0 |-> t,
       t1 |-> t,
       k |-> [i \in DOMAIN fresh |->
               IF Visited(i % (Nv + 2), i \div (Nv + 2), Mv, Nv, d)
               THEN Diffusivity(i % (Nv + 2), i \div (Nv + 2), Nv, ox, oy)
               ELSE fresh[i]],
       oob |-> /\ LocalRow(Nv, d) >= 1
               /\ LocalCol(Mv, d) >= 1
               /\ Index(LocalRow(Nv, d), LocalCol(Mv, d), Nv) >= cells ]

\* ------------------------------------------------------------------- main
\* The runs: a process count, the parser's result on rank 0, the heap.
ParsedOptions ==
  [ M : GridSizes, N : GridSizes,
    max_iteration : 0 .. MaxIter, snapshot_frequency : 1 .. MaxFreq ]

\* The state of every rank after MPI_Init, MPI_Comm_rank and MPI_Comm_size:
\* the globals are zero, the pointers NULL.
Startup ==
  /\ pc = [r \in Ranks |-> IF r = 0 THEN "parse_args" ELSE "cart_create"]
  /\ M = [r \in Ranks |-> 0]
  /\ N = [r \in Ranks |-> 0]
  /\ max_iteration = [r \in Ranks |-> 0]
  /\ snapshot_frequency = [r \in Ranks |-> 0]
  /\ dims = [r \in Ranks |-> << 0, 0 >>]
  /\ coord = [r \in Ranks |-> << 0, 0 >>]
  /\ temp = [r \in Ranks |-> << NULL, NULL >>]
  /\ thermal_diffusivity = [r \in Ranks |-> NULL]
  /\ dt = [r \in Ranks |-> 0]
  /\ iteration = [r \in Ranks |-> 0]
  /\ heap = [r \in Ranks |-> "ok"]
  /\ steps = [r \in Ranks |-> << >>]
  /\ out = << >>
  /\ files = << >>
  /\ called = [r \in Ranks |-> "none"]

Init ==
  /\ size \in ProcessCounts
  /\ options \in {<< o >> : o \in ParsedOptions} \cup {NULL}
  /\ heapfill \in Garbage
  /\ Startup

\* lines 70-82, parse_args succeeded: rank 0 copies the options
ParseArgs(r) ==
  /\ pc[r] = "parse_args"
  /\ options # NULL
  /\ M' = [M EXCEPT ![r] = options[1].M]
  /\ N' = [N EXCEPT ![r] = options[1].N]
  /\ max_iteration' = [max_iteration EXCEPT ![r] = options[1].max_iteration]
  /\ snapshot_frequency' =
       [snapshot_frequency EXCEPT ![r] = options[1].snapshot_frequency]
  /\ pc' = [pc EXCEPT ![r] = "cart_create"]
  /\ UNCHANGED << size, options, heapfill, dims, coord, temp, thermal_diffusivity,
                  dt, iteration, heap, steps, out, files, called >>

\* lines 72-76, parse_args failed: rank 0 alone leaves with exit(1)
ParseArgsFail(r) ==
  /\ pc[r] = "parse_args"
  /\ options = NULL
  /\ pc' = [pc EXCEPT ![r] = "exited"]
  /\ UNCHANGED << size, options, heapfill, M, N, max_iteration, snapshot_frequency,
                  dims, coord, temp, thermal_diffusivity, dt, iteration, heap,
                  steps, out, files, called >>

\* lines 83-84: MPI_Dims_create, then the collective MPI_Cart_create, which
\* returns once every rank of MPI_COMM_WORLD has entered it.
CartCreate(r) ==
  /\ pc[r] = "cart_create"
  /\ \A q \in Ranks : pc[q] \notin {"parse_args", "exited"}
  /\ dims' = [dims EXCEPT ![r] = DimsCreate(size)]
  /\ pc' = [pc EXCEPT ![r] = "bcast"]
  /\ UNCHANGED << size, options, heapfill, M, N, max_iteration, snapshot_frequency,
                  coord, temp, thermal_diffusivity, dt, iteration, heap, steps,
                  out, files, called >>

\* the root has gone through its broadcasts
RootSent == pc[0] \in {"domain_init", "loop", "done", "crashed"}

\* the broadcasts without the one of M (line 89): M is left as it is
BcastWithoutM(r) ==
  /\ pc[r] = "bcast"
  /\ r # 0 => RootSent
  /\ N' = [N EXCEPT ![r] = N[0]]
  /\ max_iteration' = [max_iteration EXCEPT ![r] = max_iteration[0]]
  /\ snapshot_frequency' = [snapshot_frequency EXCEPT ![r] = snapshot_frequency[0]]
  /\ coord' = [coord EXCEPT ![r] = CartCoords(r, dims[r])]
  /\ pc' = [pc EXCEPT ![r] = "domain_init"]
  /\ UNCHANGED << size, options, heapfill, M, dims, temp, thermal_diffusivity, dt,
                  iteration, heap, steps, out, files, called >>

\* lines 86-91: the four MPI_Bcast calls from root 0 (N, max_iteration,
\* snapshot_frequency, M) and MPI_Cart_coords.  The root hands its values
\* over and goes on; another rank waits for the root's values.
Bcast(r) ==
  /\ pc[r] = "bcast"
  /\ r # 0 => RootSent
  /\ N' = [N EXCEPT ![r] = N[0]]
  /\ max_iteration' = [max_iteration EXCEPT ![r] = max_iteration[0]]
  /\ snapshot_frequency' = [snapshot_frequency EXCEPT ![r] = snapshot_frequency[0]]
  /\ M' = [M EXCEPT ![r] = M[0]]
  /\ coord' = [coord EXCEPT ![r] = CartCoords(r, dims[r])]
  /\ pc' = [pc EXCEPT ![r] = "domain_init"]
  /\ UNCHANGED << size, options, heapfill, dims, temp, thermal_diffusivity, dt,
                  iteration, heap, steps, out, files, called >>

\* line 95: domain_init.  A store outside the blocks either faults or
\* damages the heap.
DomainInit(r) ==
  /\ pc[r] = "domain_init"
  /\ LET st == DomainInitOp(M[r], N[r], dims[r], coord[r], heapfill)
     IN /\ temp' = [temp EXCEPT ![r] = << st.t0, st.t1 >>]
        /\ thermal_diffusivity' = [thermal_diffusivity EXCEPT ![r] = st.k]
        /\ dt' = [dt EXCEPT ![r] = Scale \div 10]
        /\ \/ /\ pc' = [pc EXCEPT ![r] = "loop"]
              /\ heap' = [heap EXCEPT ![r] = IF st.oob THEN "damaged" ELSE "ok"]
           \/ /\ st.oob
              /\ pc' = [pc EXCEPT ![r] = "crashed"]
              /\ heap' = [heap EXCEPT ![r] = "damaged"]
  /\ UNCHANGED << size, options, heapfill, M, N, max_iteration, snapshot_frequency,
                  dims, coord, iteration, steps, out, files, called >>

\* swap (lines 49-56) on &temp[0], &temp[1]
Swap(t) == << t[2], t[1] >>

\* one pass of the loop body whose swap is applied to &temp[1] and
\* &thermal_diffusivity
LoopStepSwappingDiffusivity(r) ==
  /\ pc[r] = "loop"
  /\ iteration[r] <= max_iteration[r]
  /\ out' = IF iteration[r] % snapshot_frequency[r] = 0 /\ r = 0
            THEN Append(out, iteration[r]) ELSE out
  /\ temp' = [temp EXCEPT ![r] = << temp[r][1], thermal_diffusivity[r] >>]
  /\ thermal_diffusivity' = [thermal_diffusivity EXCEPT ![r] = temp[r][2]]
  /\ steps' = [steps EXCEPT ![r] = << "swap" >>]
  /\ iteration' = [iteration EXCEPT ![r] = iteration[r] + 1]
  /\ UNCHANGED << size, options, heapfill, pc, M, N, max_iteration,
                  snapshot_frequency, dims, coord, dt, heap, files, called >>

\* lines 100-123: one pass of the loop body.  Only the progress line of
\* rank 0 and the swap are executed.
LoopStep(r) ==
  /\ pc[r] = "loop"
  /\ iteration[r] <= max_iteration[r]
  /\ out' = IF iteration[r] % snapshot_frequency[r] = 0 /\ r = 0
            THEN Append(out, iteration[r]) ELSE out
  /\ temp' = [temp EXCEPT ![r] = Swap(temp[r])]
  /\ steps' = [steps EXCEPT ![r] = << "swap" >>]
  /\ iteration' = [iteration EXCEPT ![r] = iteration[r] + 1]
  /\ UNCHANGED << size, options, heapfill, pc, M, N, max_iteration,
                  snapshot_frequency, dims, coord, thermal_diffusivity, dt, heap,
                  files, called >>

\* lines 125-133: the loop is over; domain_finalize frees the three blocks
\* (free on a damaged heap may abort), MPI_Finalize, exit.
Finalize(r) ==
  /\ pc[r] = "loop"
  /\ iteration[r] > max_iteration[r]
  /\ \/ /\ pc' = [pc EXCEPT ![r] = "done"]
     \/ /\ heap[r] = "damaged"
        /\ pc' = [pc EXCEPT ![r] = "crashed"]
  /\ temp' = [temp EXCEPT ![r] = << NULL, NULL >>]
  /\ thermal_diffusivity' = [thermal_diffusivity EXCEPT ![r] = NULL]
  /\ UNCHANGED << size, options, heapfill, M, N, max_iteration, snapshot_frequency,
                  dims, coord, dt, iteration, heap, steps, out, files, called >>

Next ==
  \/ \E r \in Ranks : ParseArgs(r)
  \/ \E r \in Ranks : ParseArgsFail(r)
  \/ \E r \in Ranks : CartCreate(r)
  \/ \E r \in Ranks : Bcast(r)
  \/ \E r \in Ranks : DomainInit(r)
  \/ \E r \in Ranks : LoopStep(r)
  \/ \E r \in Ranks : Finalize(r)

Spec == Init /\ [][Next]_vars

\* The runs on a grid of 8 x 8.
ScenarioSizes == {8}

ScenarioOptions ==
  [ M : ScenarioSizes, N : ScenarioSizes,
    max_iteration : 0 .. MaxIter, snapshot_frequency : 1 .. MaxFreq ]

InitScenario ==
  /\ size \in ProcessCounts
  /\ options \in {<< o >> : o \in ScenarioOptions} \cup {NULL}
  /\ heapfill \in Garbage
  /\ Startup

SpecScenario == InitScenario /\ [][Next]_vars

\* a step of main() on rank r
RankStep(r) ==
  \/ ParseArgs(r)
  \/ ParseArgsFail(r)
  \/ CartCreate(r)
  \/ Bcast(r)
  \/ DomainInit(r)
  \/ LoopStep(r)
  \/ Finalize(r)

\* Every rank is a process of its own: one that can take a step of main()
\* eventually takes it.
FairSpec ==
  Spec /\ \A n \in ProcessCounts : WF_vars((n - 1) \in Ranks /\ RankStep(n - 1))

\* ------------------------------------------------------ boundary_condition
\* lines 171-175: the loop over x, from x on.  st.t is the block temp[0]
\* points to, st.oob whether an access fell outside it, st.lost whether a
\* store did.
RECURSIVE BoundaryRows(_, _, _, _, _, _)
BoundaryRows(st, x, nx, ny, Nv, fill) ==
  IF x > nx THEN st
  ELSE
    LET top == Store(st.t, Index(x, 0, Nv), Load(st.t, Index(x, 2, Nv), fill))
        bottom == Store(top, Index(x, ny + 1, Nv),
                        Load(top, Index(x, ny - 1, Nv), fill))
    IN BoundaryRows(
         [ t |-> bottom,
           oob |-> \/ st.oob
                   \/ \E y \in {0, 2, ny + 1, ny - 1} : ~InBlock(st.t, Index(x, y, Nv)),
           lost |-> \/ st.lost
                    \/ \E y \in {0, ny + 1} : ~InBlock(st.t, Index(x, y, Nv)) ],
         x + 1, nx, ny, Nv, fill)

\* lines 180-183 (to = 0, from = 2) and lines 189-192 (to = N/dims[0]+1,
\* from = N/dims[0]-1): the loop over y, from y on.
RECURSIVE BoundaryColumn(_, _, _, _, _, _, _)
BoundaryColumn(st, y, ny, to, from, Nv, fill) ==
  IF y > ny THEN st
  ELSE BoundaryColumn(
         [ t |-> Store(st.t, Index(to, y, Nv), Load(st.t, Index(from, y, Nv), fill)),
           oob |-> \/ st.oob
                   \/ ~InBlock(st.t, Index(to, y, Nv))
                   \/ ~InBlock(st.t, Index(from, y, Nv)),
           lost |-> st.lost \/ ~InBlock(st.t, Index(to, y, Nv)) ],
         y + 1, ny, to, from, Nv, fill)

\* boundary_condition on rank r of n, applied to the block t
BoundaryConditionOp(t, r, n, Mv, Nv, d, fill) ==
  LET nx == Nv \div d[1]
      ny == Mv \div d[2]
      rows == BoundaryRows([t |-> t, oob |-> FALSE, lost |-> FALSE],
                           1, nx, ny, Nv, fill)
      upper == IF r = 0
               THEN BoundaryColumn(rows, 1, ny, 0, 2, Nv, fill)
               ELSE rows
  IN IF r = n - 1
     THEN BoundaryColumn(upper, 1, ny, nx + 1, nx - 1, Nv, fill)
     ELSE upper

\* -------------------------------------------------------------- time_step
\* The loop of lines 145-161 visits (x, y) for y in 1..M/size, x in 1..N/size.
Stepped(x, y, Mv, Nv, n) ==
  /\ 1 <= x /\ x <= Nv \div n
  /\ 1 <= y /\ y <= Mv \div n

\* lines 149-157: the value time_step computes for cell (x, y)
NewValue(t0, k, x, y, Nv, dtv, fill) ==
  LET c == Load(t0, Index(x, y, Nv), fill)
      t == Load(t0, Index(x - 1, y, Nv), fill)
      b == Load(t0, Index(x + 1, y, Nv), fill)
      l == Load(t0, Index(x, y - 1, Nv), fill)
      r == Load(t0, Index(x, y + 1, Nv), fill)
      K == Load(k, Index(x, y, Nv), fill)
  IN c + FMul(FMul(K, dtv), (l - 2 * c + r) + (b - 2 * c + t))

\* time_step on a rank of n: the block temp[1] points to afterwards.  The
\* loop loads from temp[0] and the diffusivity and stores to temp[1] only,
\* and no two visits share a flat index (x <= N).
TimeStepOp(t0, t1, k, Mv, Nv, n, dtv, fill) ==
  LET visits == (1 .. (Nv \div n)) \X (1 .. (Mv \div n))
      around(xy) == { Index(xy[1], xy[2], Nv), Index(xy[1] - 1, xy[2], Nv),
                      Index(xy[1] + 1, xy[2], Nv), Index(xy[1], xy[2] - 1, Nv),
                      Index(xy[1], xy[2] + 1, Nv) }
  IN [ t |-> [i \in DOMAIN t1 |->
               IF Stepped(i % (Nv + 2), i \div (Nv + 2), Mv, Nv, n)
               THEN NewValue(t0, k, i % (Nv + 2), i \div (Nv + 2), Nv, dtv, fill)
               ELSE t1[i]],
       oob |-> \E xy \in visits :
                 \/ \E i \in around(xy) : ~InBlock(t0, i)
                 \/ ~InBlock(k, Index(xy[1], xy[2], Nv))
                 \/ ~InBlock(t1, Index(xy[1], xy[2], Nv)),
       lost |-> \E xy \in visits : ~InBlock(t1, Index(xy[1], xy[2], Nv)) ]

\* ------------------------------------------------------------ domain_save
\* line 240
SnapshotIndex(it, freq) == it \div freq

\* line 252: the flat index of the j-th value (j from 0) of the fwrite of
\* loop pass iter
SaveIndex(iter, j, Mv) == (Mv + 2) * iter + 1 + j

\* domain_save taking the values from the block temp[1] points to
DomainSaveNext(t, Mv, Nv, fill) ==
  [ data |-> [n \in 1 .. (Nv * Nv) |->
               Load(t[2], SaveIndex(((n - 1) \div Nv) + 1, (n - 1) % Nv, Mv), fill)],
    oob |-> \E iter \in 1 .. Nv : \E j \in 0 .. (Nv - 1) :
              ~InBlock(t[2], SaveIndex(iter, j, Mv)) ]

\* lines 250-253: what domain_save writes to the file: N passes of N
\* values each, taken from the block temp[0] points to.
DomainSaveOp(t, Mv, Nv, fill) ==
  [ data |-> [n \in 1 .. (Nv * Nv) |->
               Load(t[1], SaveIndex(((n - 1) \div Nv) + 1, (n - 1) % Nv, Mv), fill)],
    oob |-> \E iter \in 1 .. Nv : \E j \in 0 .. (Nv - 1) :
              ~InBlock(t[1], SaveIndex(iter, j, Mv)) ]

\* ----------------------------------------------- the functions, one call
\* The blocks of rank r of n after domain_init
Initialised(r, n, o, fill) ==
  DomainInitOp(o.M, o.N, DimsCreate(n), CartCoords(r, DimsCreate(n)), fill)

\* The state of a run in which every rank has gone through domain_init and
\* stands in the loop, at iteration it; with stepped, the block temp[1]
\* points to holds what time_step computes from the one temp[0] points to.
AtLoop(it, stepped) ==
  /\ size \in ProcessCounts
  /\ options \in {<< o >> : o \in ParsedOptions}
  /\ heapfill \in Garbage
  /\ pc = [r \in Ranks |-> "loop"]
  /\ M = [r \in Ranks |-> options[1].M]
  /\ N = [r \in Ranks |-> options[1].N]
  /\ max_iteration = [r \in Ranks |-> options[1].max_iteration]
  /\ snapshot_frequency = [r \in Ranks |-> options[1].snapshot_frequency]
  /\ dims = [r \in Ranks |-> DimsCreate(size)]
  /\ coord = [r \in Ranks |-> CartCoords(r, DimsCreate(size))]
  /\ temp = [r \in Ranks |->
               LET st == Initialised(r, size, options[1], heapfill)
               IN << st.t0,
                     IF stepped
                     THEN TimeStepOp(st.t0, st.t1, st.k, options[1].M, options[1].N,
                                     size, Scale \div 10, heapfill).t
                     ELSE st.t1 >>]
  /\ thermal_diffusivity =
       [r \in Ranks |-> Initialised(r, size, options[1], heapfill).k]
  /\ heap = [r \in Ranks |->
               IF Initialised(r, size, options[1], heapfill).oob
               THEN "damaged" ELSE "ok"]
  /\ dt = [r \in Ranks |-> Scale \div 10]
  /\ iteration = [r \in Ranks |-> it]
  /\ it <= options[1].max_iteration
  /\ steps = [r \in Ranks |-> << >>]
  /\ out = << >>
  /\ files = << >>
  /\ called = [r \in Ranks |-> "none"]

\* lines 95-123 with one process: the block temp[0] points to when the loop
\* is over, after domain_init and max_iteration + 1 swaps.
SerialFinal(o, fill) ==
  LET st == Initialised(0, 1, o, fill)
  IN IF (o.max_iteration + 1) % 2 = 0 THEN st.t0 ELSE st.t1

InitCall == \E it \in 0 .. MaxIter : AtLoop(it, FALSE)

\* boundary_condition called once on rank r.  An access outside the block
\* either faults or goes on, a lost store damaging the heap.
BoundaryCondition(r) ==
  /\ pc[r] = "loop"
  /\ called[r] = "none"
  /\ LET st == BoundaryConditionOp(temp[r][1], r, size, M[r], N[r], dims[r], heapfill)
     IN /\ temp' = [temp EXCEPT ![r][1] = st.t]
        /\ heap' = [heap EXCEPT ![r] = IF st.lost THEN "damaged" ELSE @]
        /\ \/ pc' = pc
           \/ st.oob /\ pc' = [pc EXCEPT ![r] = "crashed"]
  /\ called' = [called EXCEPT ![r] = "boundary_condition"]
  /\ UNCHANGED << size, options, heapfill, M, N, max_iteration, snapshot_frequency,
                  dims, coord, thermal_diffusivity, dt, iteration, steps, out, files >>

NextBoundary == \E r \in Ranks : BoundaryCondition(r)

SpecBoundary == InitCall /\ [][NextBoundary]_vars

\* time_step storing its values through T instead of T_next
TimeStepInPlace(r) ==
  /\ pc[r] = "loop"
  /\ called[r] = "none"
  /\ LET st == TimeStepOp(temp[r][1], temp[r][1], thermal_diffusivity[r],
                          M[r], N[r], size, dt[r], heapfill)
     IN /\ temp' = [temp EXCEPT ![r][1] = st.t]
        /\ heap' = [heap EXCEPT ![r] = IF st.lost THEN "damaged" ELSE @]
        /\ \/ pc' = pc
           \/ st.oob /\ pc' = [pc EXCEPT ![r] = "crashed"]
  /\ called' = [called EXCEPT ![r] = "time_step"]
  /\ UNCHANGED << size, options, heapfill, M, N, max_iteration, snapshot_frequency,
                  dims, coord, thermal_diffusivity, dt, iteration, steps, out, files >>

\* time_step called once on rank r
TimeStep(r) ==
  /\ pc[r] = "loop"
  /\ called[r] = "none"
  /\ LET st == TimeStepOp(temp[r][1], temp[r][2], thermal_diffusivity[r],
                          M[r], N[r], size, dt[r], heapfill)
     IN /\ temp' = [temp EXCEPT ![r][2] = st.t]
        /\ heap' = [heap EXCEPT ![r] = IF st.lost THEN "damaged" ELSE @]
        /\ \/ pc' = pc
           \/ st.oob /\ pc' = [pc EXCEPT ![r] = "crashed"]
  /\ called' = [called EXCEPT ![r] = "time_step"]
  /\ UNCHANGED << size, options, heapfill, M, N, max_iteration, snapshot_frequency,
                  dims, coord, thermal_diffusivity, dt, iteration, steps, out, files >>

NextTimeStep == \E r \in Ranks : TimeStep(r)

SpecTimeStep == InitCall /\ [][NextTimeStep]_vars

\* domain_save(iteration) called on rank r, fopen succeeding: the file of
\* the snapshot index is created or truncated and written.  A load outside
\* the block either faults (leaving the file empty) or yields heap content.
DomainSave(r) ==
  /\ pc[r] = "loop"
  /\ called[r] = "none"
  /\ LET st == DomainSaveOp(temp[r], M[r], N[r], heapfill)
         index == SnapshotIndex(iteration[r], snapshot_frequency[r])
     IN \/ /\ pc' = pc
           /\ files' = [i \in DOMAIN files \cup {index} |->
                          IF i = index
                          THEN [by |-> r, iteration |-> iteration[r], data |-> st.data]
                          ELSE files[i]]
        \/ /\ st.oob
           /\ pc' = [pc EXCEPT ![r] = "crashed"]
           /\ files' = [i \in DOMAIN files \cup {index} |->
                          IF i = index
                          THEN [by |-> r, iteration |-> iteration[r], data |-> << >>]
                          ELSE files[i]]
  /\ called' = [called EXCEPT ![r] = "domain_save"]
  /\ UNCHANGED << size, options, heapfill, M, N, max_iteration, snapshot_frequency,
                  dims, coord, temp, thermal_diffusivity, dt, iteration, heap,
                  steps, out >>

\* lines 245-249: fopen fails, the rank leaves with exit(1)
DomainSaveFail(r) ==
  /\ pc[r] = "loop"
  /\ called[r] = "none"
  /\ pc' = [pc EXCEPT ![r] = "exited"]
  /\ called' = [called EXCEPT ![r] = "domain_save"]
  /\ UNCHANGED << size, options, heapfill, M, N, max_iteration, snapshot_frequency,
                  dims, coord, temp, thermal_diffusivity, dt, iteration, heap,
                  steps, out, files >>

InitSave == \E it \in 0 .. MaxIter : \E stepped \in BOOLEAN : AtLoop(it, stepped)

NextSave ==
  \/ \E r \in Ranks : DomainSave(r)
  \/ \E r \in Ranks : DomainSaveFail(r)

SpecSave == InitSave /\ [][NextSave]_vars

\* ================================================================ claims
\* The local extents of the claims: columns N / dims[0], rows M / dims[1].
LocalCols(r) == N[r] \div dims[r][1]

LocalRows(r) == M[r] \div dims[r][2]

\* rank q is the neighbour of rank r one step along axis a (1 or 2)
NextAlong(r, q, a) ==
  /\ coord[q][a] = coord[r][a] + 1
  /\ coord[q][3 - a] = coord[r][3 - a]

Adjacent(r, q) == \E a \in {1, 2} : NextAlong(r, q, a) \/ NextAlong(q, r, a)

\* rank r stands in the loop, its blocks allocated
InLoop(r) == pc[r] = "loop"

\* the cell (x, y) of block b exists and holds v
Holds(b, x, y, Nv, v) == InBlock(b, Index(x, y, Nv)) /\ b[Index(x, y, Nv)] = v

\* the cell (x, y) of block b, or the heap content where the block ends
At(b, x, y, Nv) == Load(b, Index(x, y, Nv), heapfill)

\* C1: in every pass of the loop, on every rank, the body runs the halo
\* exchange, the boundary fill, the stencil update and the swap, in that
\* order.
C1_StrictStepOrder ==
  \A r \in Ranks :
    steps[r] # << >> =>
      steps[r] = << "border_exchange", "boundary_condition", "time_step", "swap" >>

\* C2: once two adjacent ranks have both gone through the halo exchange of
\* a pass, the halo column (row) of the one equals, cell for cell, the
\* adjacent interior column (row) of the other.
C2_HaloEqualsNeighbourInterior ==
  \A r, q \in Ranks :
    (InLoop(r) /\ InLoop(q) /\ iteration[r] >= 1 /\ iteration[q] >= 1) =>
      /\ NextAlong(r, q, 1) =>
            \A y \in 1 .. LocalRows(r) :
              /\ Holds(temp[r][1], LocalCols(r) + 1, y, N[r], At(temp[q][1], 1, y, N[q]))
              /\ Holds(temp[q][1], 0, y, N[q], At(temp[r][1], LocalCols(r), y, N[r]))
      /\ NextAlong(r, q, 2) =>
            \A x \in 1 .. LocalCols(r) :
              /\ Holds(temp[r][1], x, LocalRows(r) + 1, N[r], At(temp[q][1], x, 1, N[q]))
              /\ Holds(temp[q][1], x, 0, N[q], At(temp[r][1], x, LocalRows(r), N[r]))

\* rank q has reached the exchange point of pass k
Reached(q, k) == pc[q] \in {"loop", "done"} /\ iteration[q] >= k

\* C3: the passes of adjacent ranks are aligned: a rank is in or past pass
\* k+1 only when its neighbours have reached the exchange point of pass k.
C3_IterationsAligned ==
  \A r, q \in Ranks :
    (pc[r] \in {"loop", "done"} /\ iteration[r] >= 1 /\ pc[q] # "crashed"
       /\ coord[r] # coord[q] /\ Adjacent(r, q))
      => Reached(q, iteration[r] - 1)

\* the iterations a checkpoint file has been written for
Checkpointed == {files[i].iteration : i \in DOMAIN files}

\* C7: a checkpoint is written at exactly the iterations k of
\* 0..max_iteration with k % snapshot_frequency = 0: each such pass a rank
\* has completed has its checkpoint, and a finished run has no others.
C7_CheckpointCadence ==
  /\ \A r \in Ranks :
       pc[r] \in {"loop", "done"} =>
         \A k \in 0 .. (iteration[r] - 1) :
           k % snapshot_frequency[r] = 0 => k \in Checkpointed
  /\ (\A r \in Ranks : pc[r] = "done") =>
       Checkpointed = {k \in 0 .. max_iteration[0] : k % snapshot_frequency[0] = 0}

\* C10: with valid options every rank makes exactly max_iteration+1 passes
\* and then terminates normally; no rank stops anywhere else.
C10_NormalTermination ==
  options # NULL =>
    /\ \A r \in Ranks : pc[r] = "done" => iteration[r] = max_iteration[r] + 1
    /\ (\A r \in Ranks : pc[r] = "done") \/ ENABLED Next

\* rank r has just returned from a call of f
Returned(r, f) == called[r] = f /\ pc[r] = "loop"

\* the cells (x, y) and (u, v) both lie in block b and hold the same value
Mirrors(b, x, y, u, v, Nv) ==
  (InBlock(b, Index(x, y, Nv)) /\ InBlock(b, Index(u, v, Nv)))
    => b[Index(x, y, Nv)] = b[Index(u, v, Nv)]

\* C4: after boundary_condition, on every side of the subgrid that lies on
\* a global edge (by the rank's coordinate), every halo cell equals the
\* interior cell two steps in (cells inside the allocated block).
C4_MirrorOnGlobalEdges ==
  \A r \in Ranks :
    Returned(r, "boundary_condition") =>
      LET b == temp[r][1]
          nx == LocalCols(r)
          ny == LocalRows(r)
      IN /\ coord[r][1] = 0 =>
              \A y \in 1 .. ny : Mirrors(b, 0, y, 2, y, N[r])
         /\ coord[r][1] = dims[r][1] - 1 =>
              \A y \in 1 .. ny : Mirrors(b, nx + 1, y, nx - 1, y, N[r])
         /\ coord[r][2] = 0 =>
              \A x \in 1 .. nx : Mirrors(b, x, 0, x, 2, N[r])
         /\ coord[r][2] = dims[r][2] - 1 =>
              \A x \in 1 .. nx : Mirrors(b, x, ny + 1, x, ny - 1, N[r])

\* the cell (x, y) of the block temp[0] of rank r is the same before and
\* after the step
Kept(r, x, y) ==
  InBlock(temp[r][1], Index(x, y, N[r])) =>
    temp'[r][1][Index(x, y, N[r])] = temp[r][1][Index(x, y, N[r])]

\* C5: boundary_condition leaves the halo cells of every side on which the
\* rank has a neighbour as they were.
C5_NeighbourHaloKept ==
  [][\A r \in Ranks :
       (called[r] = "none" /\ called'[r] = "boundary_condition" /\ pc'[r] = "loop") =>
         /\ coord[r][1] > 0 =>
              \A y \in 1 .. LocalRows(r) : Kept(r, 0, y)
         /\ coord[r][1] < dims[r][1] - 1 =>
              \A y \in 1 .. LocalRows(r) : Kept(r, LocalCols(r) + 1, y)
         /\ coord[r][2] > 0 =>
              \A x \in 1 .. LocalCols(r) : Kept(r, x, 0)
         /\ coord[r][2] < dims[r][2] - 1 =>
              \A x \in 1 .. LocalCols(r) : Kept(r, x, LocalRows(r) + 1)]_vars

\* current + diffusivity * dt * (sum of the four neighbours - 4 * current)
\* at cell (x, y) of rank r
Stencil(r, x, y) ==
  LET b == temp[r][1]
      c == At(b, x, y, N[r])
      sum == At(b, x - 1, y, N[r]) + At(b, x + 1, y, N[r])
               + At(b, x, y - 1, N[r]) + At(b, x, y + 1, N[r])
  IN c + FMul(FMul(At(thermal_diffusivity[r], x, y, N[r]), dt[r]), sum - 4 * c)

\* C6: time_step stores the stencil value in every interior cell (x, y) of
\* the local subgrid, x in 1..N/dims[0], y in 1..M/dims[1], and changes no
\* other cell of next.
C6_StencilOnLocalInterior ==
  [][\A r \in Ranks :
       (called[r] = "none" /\ called'[r] = "time_step" /\ pc'[r] = "loop") =>
         \A i \in DOMAIN temp[r][2] :
           LET x == i % (N[r] + 2)
               y == i \div (N[r] + 2)
           IN IF 1 <= x /\ x <= LocalCols(r) /\ 1 <= y /\ y <= LocalRows(r)
              THEN temp'[r][2][i] = Stencil(r, x, y)
              ELSE temp'[r][2][i] = temp[r][2][i]]_vars

\* the rank whose subgrid holds the global cell (x, y), counted from 1
Owner(x, y) ==
  CHOOSE q \in Ranks :
    /\ (x - 1) \div LocalCols(q) = coord[q][1]
    /\ (y - 1) \div LocalRows(q) = coord[q][2]

\* C8: a checkpoint file is the dense row-major M x N matrix of the global
\* field: M * N values, the one of global cell (x, y) being the interior
\* value of the rank that owns the cell.
C8_DenseGlobalMatrix ==
  \A i \in DOMAIN files :
    LET f == files[i]
        w == f.by
    IN (pc[w] = "loop" /\ M[w] % dims[w][2] = 0 /\ N[w] % dims[w][1] = 0) =>
         /\ Len(f.data) = M[w] * N[w]
         /\ \A y \in 1 .. M[w] : \A x \in 1 .. N[w] :
              LET q == Owner(x, y)
              IN f.data[(y - 1) * N[w] + x] =
                   At(temp[q][1], x - coord[q][1] * LocalCols(q),
                      y - coord[q][2] * LocalRows(q), N[q])

\* the flat index domain_save loads the n-th value of a file from
SavedFrom(n, r) == SaveIndex(((n - 1) \div N[r]) + 1, (n - 1) % N[r], M[r])

\* every value of every file that was loaded from inside the block is the
\* value block number which (1: temp[0], 2: temp[1]) of the writer holds there
SavedFromBlock(which) ==
  \A i \in DOMAIN files :
    LET f == files[i]
    IN \A n \in DOMAIN f.data :
         InBlock(temp[f.by][which], SavedFrom(n, f.by)) =>
           f.data[n] = temp[f.by][which][SavedFrom(n, f.by)]

Terminated(r) == pc[r] \in {"done", "exited", "crashed"}

\* C11: once a process has hit a fatal condition and left with exit(1),
\* every process of the run eventually terminates; none stays blocked in
\* MPI_Cart_create or MPI_Bcast.
C11_FatalTerminatesAll ==
  (\E r \in Ranks : pc[r] = "exited") ~> (\A r \in Ranks : Terminated(r))

\* rank r has received the configuration and its topology, and the grid
\* does not divide evenly over the topology
InvalidConfiguration(r) ==
  /\ pc[r] \in {"domain_init", "loop", "done", "crashed"}
  /\ (M[r] % dims[r][2] # 0 \/ N[r] % dims[r][1] # 0)

\* C12: a rank whose M is not divisible by dims[1] or whose N is not
\* divisible by dims[0] allocates no field buffer and executes no
\* iteration: it never gets into the loop.
C12_InvalidConfigurationRejected ==
  \A r \in Ranks :
    InvalidConfiguration(r) =>
      /\ temp[r] = << NULL, NULL >>
      /\ thermal_diffusivity[r] = NULL
      /\ iteration[r] = 0
      /\ pc[r] \notin {"loop", "done"}

\* rank r has come to domain_init or further
Configured(r) == pc[r] \in {"domain_init", "loop", "done", "crashed"}

\* C13: from the start of domain_init on, the M, N, max_iteration and
\* snapshot_frequency of every rank are the values parse_args returned on
\* rank 0; they are the same on all such ranks for the rest of the run.
C13_ConfigurationBroadcast ==
  \A r \in Ranks :
    Configured(r) =>
      /\ options # NULL
      /\ M[r] = options[1].M
      /\ N[r] = options[1].N
      /\ max_iteration[r] = options[1].max_iteration
      /\ snapshot_frequency[r] = options[1].snapshot_frequency

\* a rank other than the root stands at domain_init with the root's values
C13_Witness ==
  \E r \in Ranks :
    /\ r # 0
    /\ pc[r] = "domain_init"
    /\ options # NULL
    /\ << M[r], N[r] >> = << options[1].M, options[1].N >>
    /\ M[r] # N[r]
    /\ max_iteration[r] = options[1].max_iteration
    /\ max_iteration[r] > 0
    /\ snapshot_frequency[r] = options[1].snapshot_frequency

\* the number of cells of block b
Cells(b) == Cardinality(DOMAIN b)

\* C14: after domain_init the subgrid of a rank has M / dims[1] rows (the
\* y of its loop) and N / dims[0] columns (the x of its loop), and each of
\* the three blocks has (local_rows+2) * (local_cols+2) cells.
C14_LocalExtentsAndBlocks ==
  \A r \in Ranks :
    InLoop(r) =>
      /\ LocalCol(M[r], dims[r]) = LocalRows(r)
      /\ LocalRow(N[r], dims[r]) = LocalCols(r)
      /\ Cells(temp[r][1]) = (LocalRows(r) + 2) * (LocalCols(r) + 2)
      /\ Cells(temp[r][2]) = (LocalRows(r) + 2) * (LocalCols(r) + 2)
      /\ Cells(thermal_diffusivity[r]) = (LocalRows(r) + 2) * (LocalCols(r) + 2)

\* the global cell (x, y), counted from 1, lies in the subgrid of rank q
Owns(q, x, y) ==
  /\ (x - 1) \div LocalCols(q) = coord[q][1]
  /\ (y - 1) \div LocalRows(q) = coord[q][2]

\* rank r has made all its passes and still holds its blocks
LoopOver(r) == pc[r] = "loop" /\ iteration[r] = max_iteration[r] + 1

\* C15: with M and N divisible by 2 and 4 processes arranged 2x2, when the
\* loop of a rank is over, every global cell (x, y) the rank owns holds, at
\* its local position, the final temperature the run with 1 process holds
\* for that cell.
C15_SameFieldAsSerial ==
  \A q \in Ranks :
    (size = 4 /\ LoopOver(q) /\ M[q] % 2 = 0 /\ N[q] % 2 = 0) =>
      \A y \in 1 .. M[q] : \A x \in 1 .. N[q] :
        Owns(q, x, y) =>
          Holds(temp[q][1], x - coord[q][1] * LocalCols(q),
                y - coord[q][2] * LocalRows(q), N[q],
                SerialFinal(options[1], heapfill)[Index(x, y, N[q])])

\* the run of the scenario: 8 x 8, one process, a single iteration
Scenario ==
  /\ size = 1
  /\ options # NULL
  /\ options[1] = [ M |-> 8, N |-> 8, max_iteration |-> 0, snapshot_frequency |-> 1 ]

\* C16: when the run with M = N = 8, 1 process, max_iteration = 0 and
\* snapshot_frequency = 1 is over, exactly one checkpoint exists, and its
\* entry for the cell (x, y), x and y counted from 0, row-major, is
\* 30 + 30 * sin((x + y) / 20.0).
C16_CheckpointIsInitialCondition ==
  (Scenario /\ pc[0] = "done") =>
    /\ DOMAIN files = {0}
    /\ DOMAIN files[0].data = 1 .. 64
    /\ \A y \in 0 .. 7 : \A x \in 0 .. 7 :
         files[0].data[y * 8 + x + 1] = InitialValue(x + y)

\* C17: no access through T, T_next or THERMAL_DIFFUSIVITY falls outside
\* the block domain_init allocated: no rank has stored outside its blocks
\* and none has faulted, whatever the process count and M, N.
C17_AccessesInsideBlocks ==
  \A r \in Ranks : heap[r] = "ok" /\ pc[r] # "crashed"

\* the global cell (x, y), counted from 1, lies in the extent domain_init
\* gives rank q, placed at the offsets domain_init computes for it
Covers(q, x, y) ==
  /\ x - OffsetX(N[q], dims[q], coord[q]) \in 1 .. LocalRow(N[q], dims[q])
  /\ y - OffsetY(M[q], dims[q], coord[q]) \in 1 .. LocalCol(M[q], dims[q])

\* C18: once every rank has its configuration and coordinates, with M and
\* N divisible by the dims, every cell of the N x M domain lies in the
\* subgrid of exactly one rank and no subgrid reaches outside the domain.
C18_SubgridsTile ==
  ((\A r \in Ranks : Configured(r))
     /\ M[0] % dims[0][1] = 0 /\ M[0] % dims[0][2] = 0
     /\ N[0] % dims[0][1] = 0 /\ N[0] % dims[0][2] = 0) =>
    /\ \A y \in 1 .. M[0] : \A x \in 1 .. N[0] :
         Cardinality({q \in Ranks : Covers(q, x, y)}) = 1
    /\ \A q \in Ranks :
         /\ OffsetX(N[q], dims[q], coord[q]) + LocalRow(N[q], dims[q]) <= N[q]
         /\ OffsetY(M[q], dims[q], coord[q]) + LocalCol(M[q], dims[q]) <= M[q]

\* C19: a call of time_step leaves every cell of current (temp[0]), every
\* cell of the diffusivity block and dt as they were, and each cell of
\* next it changes holds the stencil value of current, diffusivity and dt.
C19_TimeStepWritesOnlyNext ==
  [][\A r \in Ranks :
       (called[r] = "none" /\ called'[r] = "time_step") =>
         /\ temp'[r][1] = temp[r][1]
         /\ thermal_diffusivity'[r] = thermal_diffusivity[r]
         /\ dt'[r] = dt[r]
         /\ DOMAIN temp'[r][2] = DOMAIN temp[r][2]
         /\ \A i \in DOMAIN temp[r][2] :
              temp'[r][2][i] # temp[r][2][i] =>
                temp'[r][2][i] = Stencil(r, i % (N[r] + 2), i \div (N[r] + 2))]_vars

\* time_step has returned on a rank and has changed a cell of next
C19_Witness ==
  \E r \in Ranks :
    /\ Returned(r, "time_step")
    /\ \E i \in DOMAIN temp[r][2] :
         /\ InBlock(temp[r][1], i)
         /\ temp[r][2][i] # temp[r][1][i]
         /\ temp[r][2][i] = Stencil(r, i % (N[r] + 2), i \div (N[r] + 2))

\* C20: from the return of domain_init until the blocks are freed, no step
\* of the run changes a cell of the diffusivity block of a rank; a pass of
\* the loop exchanges the two temperature blocks and nothing else.
C20_DiffusivityNeverMutated ==
  [][\A r \in Ranks :
       (InLoop(r) /\ pc'[r] = "loop") =>
         /\ thermal_diffusivity'[r] = thermal_diffusivity[r]
         /\ temp'[r] \in {temp[r], Swap(temp[r])}]_vars

\* a rank has made a pass of the loop, swap included, and its diffusivity
\* block is the one domain_init populated
C20_Witness ==
  \E r \in Ranks :
    /\ InLoop(r)
    /\ iteration[r] >= 1
    /\ steps[r] = << "swap" >>
    /\ thermal_diffusivity[r] =
         DomainInitOp(M[r], N[r], dims[r], coord[r], heapfill).k
    /\ \E i \in DOMAIN thermal_diffusivity[r] :
         thermal_diffusivity[r][i] \notin Garbage

====
